---- MODULE Spec2Model ----
(***************************************************************************)
(* A model of ggk::Mgmt (src/src/Mgmt.cpp): the encoder that builds the    *)
(* packed Bluetooth management requests and hands them to                  *)
(* HciAdapter::sendCommand.                                                *)
(*                                                                         *)
(* A std::string is a sequence of bytes 0..255 (it may hold NUL bytes).    *)
(* A uint16_t UUID is the sequence of its two bytes as they lie in memory  *)
(* (memcpy copies the object representation); the null pointer is <<>>.    *)
(* A request is [code, controllerId, dataSize, body], body being the       *)
(* fields that follow the HciHeader in the packed SRequest.                *)
(***************************************************************************)
EXTENDS Integers, Sequences, FiniteSets, TLC

\* ------------------------------------------------------------------ bounds

\* How many bytes past a length limit the longest input strings reach.
MaxOver == 1
\* The uint8_t state values the callers pass are 0..MaxState.
MaxState == 2

\* --------------------------------------------------------------- constants

\* Mgmt::kMaxAdvertisingNameLength, kMaxAdvertisingShortNameLength (Mgmt.h).
kMaxAdvertisingNameLength == 248
kMaxAdvertisingShortNameLength == 10
\* sizeof(HciAdapter::HciHeader): code, controllerId, dataSize, 16 bits each.
HciHeaderSize == 6
\* char name[249]; char shortName[11];
NameFieldSize == 249
ShortNameFieldSize == 11
\* constexpr size_t ADVERTISING_SHORTNAME_MAX_LEN / ADVERTISING_UUID_LEN
ADVERTISING_SHORTNAME_MAX_LEN == 8
ADVERTISING_UUID_LEN == 2
ADVERTISING_MAX_DATALEN == 2 + ADVERTISING_SHORTNAME_MAX_LEN + 2 + ADVERTISING_UUID_LEN

\* ------------------------------------------------------------------ inputs

Min(a, b) == IF a <= b THEN a ELSE b

\* The n-byte string "ABC...", with a NUL byte at position z when 1 <= z <= n.
Str(n, z) == [i \in 1..n |-> IF i = z THEN 0 ELSE 65 + ((i - 1) % 26)]

\* The names given to setName and truncateName.
Names ==
    {Str(n, 0) : n \in {3} \cup
        (kMaxAdvertisingNameLength .. (kMaxAdvertisingNameLength + MaxOver))}
    \cup {Str(3, 2)}

\* The short names given to setName and truncateShortName.
ShortNames ==
    {Str(n, 0) : n \in {3} \cup
        (kMaxAdvertisingShortNameLength .. (kMaxAdvertisingShortNameLength + MaxOver))}
    \cup {Str(3, 2)}

\* The short names given to addAdvertising.
AdvNames ==
    {Str(n, 0) : n \in {0} \cup
        (ADVERTISING_SHORTNAME_MAX_LEN .. (ADVERTISING_SHORTNAME_MAX_LEN + MaxOver))}
    \cup {Str(3, 2)}

\* const uint16_t *uuid: null, or a pointer to these two bytes.
Null == <<>>
Uuids == {<<24, 254>>, <<10, 24>>}
UuidPtrs == Uuids \cup {Null}
\* What a read through the null pointer can yield when it does not trap.
WildUuids == {<<0, 0>>, <<255, 255>>}

\* The Mgmt objects of the process and the controller indices given to them.
Objects == {"m1", "m2"}
Indices == {0, 1}
States == 0 .. MaxState
Modes == {0, 1, 2}
Timeouts == {0, 65535}
\* What the stack holds where a request is about to be built.
StackBytes == {0, 170}

\* -------------------------------------------------------------- the state

VARIABLES
    running,            \* the process is alive
    live,               \* the Mgmt objects constructed so far
    controllerIndex,    \* Mgmt::controllerIndex of each object
    ctorArg,            \* history: the index given to each object's constructor
    synced,             \* the indices HciAdapter::sync was called with
    kInit,              \* the guard of addAdvertising's function-local statics
    kShortName,         \* static std::string kShortName
    kUuid,              \* static const uint16_t kUuid
    firstAdv,           \* history: the first addAdvertising call of the process
    recentAdv,          \* history: the latest addAdvertising call with a pointer
    last,               \* the latest call: arguments, request sent, result
    pin                 \* history: one earlier call, kept across process runs

vars == <<running, live, controllerIndex, ctorArg, synced, kInit, kShortName,
          kUuid, firstAdv, recentAdv, last, pin>>

statics == <<kInit, kShortName, kUuid>>
history == <<firstAdv, recentAdv>>

NoReq == [code |-> "none", controllerId |-> 0, dataSize |-> 0]
NoCall ==
    [op |-> "none", ctor |-> 0, args |-> <<>>, sends |-> 0, ack |-> FALSE,
     returned |-> FALSE, ret |-> FALSE, out |-> <<>>, req |-> NoReq,
     nullRead |-> FALSE, first |-> FALSE]
NoPin == [op |-> "none", ctor |-> 0, args |-> <<>>, req |-> NoReq, defined |-> TRUE]
NoAdv == [set |-> FALSE, name |-> <<>>, uuid |-> Null]

\* The process is alive and between two calls.
Idle == running /\ last.op = "none"

\* ------------------------------------------------------- truncation helpers

truncateName(name) ==
    IF Len(name) <= kMaxAdvertisingNameLength
    THEN name
    ELSE SubSeq(name, 1, kMaxAdvertisingNameLength)

\* truncateShortName cutting one byte short of the limit.
truncateShortNameOffByOne(name) ==
    IF Len(name) <= kMaxAdvertisingShortNameLength
    THEN name
    ELSE SubSeq(name, 1, kMaxAdvertisingShortNameLength - 1)

truncateShortName(name) ==
    IF Len(name) <= kMaxAdvertisingShortNameLength
    THEN name
    ELSE SubSeq(name, 1, kMaxAdvertisingShortNameLength)

\* ----------------------------------------------------------- libc, as used

\* std::string::c_str() as "%s" and strlen see it: the bytes before the first NUL.
strlen(s) ==
    LET nuls == {i \in 1..Len(s) : s[i] = 0}
    IN IF nuls = {} THEN Len(s)
       ELSE (CHOOSE i \in nuls : \A j \in nuls : i <= j) - 1

c_str(s) == SubSeq(s, 1, strlen(s))

\* memset(&buf[at], v, n), at counted from 0.
memset(buf, at, v, n) ==
    [i \in 1..Len(buf) |-> IF i > at /\ i <= at + n THEN v ELSE buf[i]]

\* memcpy(&buf[at], src, n), at counted from 0.
memcpy(buf, at, src, n) ==
    [i \in 1..Len(buf) |-> IF i > at /\ i <= at + n THEN src[i - at] ELSE buf[i]]

\* snprintf(buf, size, "%s", s): at most size - 1 bytes of the C string, then NUL.
snprintf(buf, size, s) ==
    LET k == Min(Len(s), size - 1)
    IN [i \in 1..Len(buf) |->
            IF i <= k THEN s[i] ELSE IF i = k + 1 THEN 0 ELSE buf[i]]

\* An uninitialised char array of n bytes on the stack.
Uninit(n, junk) == [i \in 1..n |-> junk]

\* ---------------------------------------------------------------- requests

\* What a setter leaves behind: the one request it handed to sendCommand, the
\* transport's answer (ack) and the value it returned.
Submitted(op, ctor, args, req, ack) ==
    [op |-> op, ctor |-> ctor, args |-> args, sends |-> 1, ack |-> ack,
     returned |-> TRUE, ret |-> (IF ~ack THEN FALSE ELSE TRUE), out |-> <<>>,
     req |-> req, nullRead |-> FALSE, first |-> FALSE]

\* NameField without the memset: the bytes after the terminator stay as found.
NameFieldNoMemset(name, junk) ==
    snprintf(Uninit(NameFieldSize, junk), NameFieldSize, c_str(name))

\* memset(request.name, 0, sizeof); snprintf(request.name, sizeof, "%s", name.c_str())
NameField(name, junk) ==
    snprintf(memset(Uninit(NameFieldSize, junk), 0, 0, NameFieldSize),
             NameFieldSize, c_str(name))

ShortNameField(shortName, junk) ==
    snprintf(memset(Uninit(ShortNameFieldSize, junk), 0, 0, ShortNameFieldSize),
             ShortNameFieldSize, c_str(shortName))

\* sizeof(SRequest) - sizeof(HciAdapter::HciHeader) of setName's packed SRequest.
NameDataSize ==
    ((HciHeaderSize + NameFieldSize + ShortNameFieldSize) - HciHeaderSize) % 65536

setNameRequest(index, name, shortName, junk) ==
    [code |-> "ESetLocalNameCommand",
     controllerId |-> index,
     dataSize |-> NameDataSize,
     body |-> [name |-> NameField(truncateName(name), junk),
               shortName |-> ShortNameField(truncateShortName(shortName), junk)]]

\* uint8_t disc; uint16_t timeout;
DiscoverableDataSize == ((HciHeaderSize + 1 + 2) - HciHeaderSize) % 65536

setDiscoverableRequest(index, disc, timeout) ==
    [code |-> "ESetDiscoverableCommand",
     controllerId |-> index,
     dataSize |-> DiscoverableDataSize,
     body |-> [disc |-> disc, timeout |-> timeout]]

\* uint8_t state;
StateDataSize == ((HciHeaderSize + 1) - HciHeaderSize) % 65536

setStateRequest(commandCode, controllerId, newState) ==
    [code |-> commandCode,
     controllerId |-> controllerId,
     dataSize |-> StateDataSize,
     body |-> [state |-> newState]]

\* The codes setState is called with directly.
DirectCodes == {"ESetPoweredCommand", "ESetAdvertisingCommand"}

\* The seven wrappers: the request each one has setState build.
setPoweredRequest(index, newState) ==
    setStateRequest("ESetPoweredCommand", index, IF newState THEN 1 ELSE 0)

\* setBredr sending setPowered's opcode.
setBredrRequestPowered(index, newState) ==
    setStateRequest("ESetPoweredCommand", index, IF newState THEN 1 ELSE 0)

setBredrRequest(index, newState) ==
    setStateRequest("ESetBREDRCommand", index, IF newState THEN 1 ELSE 0)

setSecureConnectionsRequest(index, newState) ==
    setStateRequest("ESetSecureConnectionsCommand", index, newState)

setBondableRequest(index, newState) ==
    setStateRequest("ESetBondableCommand", index, IF newState THEN 1 ELSE 0)

setConnectableRequest(index, newState) ==
    setStateRequest("ESetConnectableCommand", index, IF newState THEN 1 ELSE 0)

\* setLE addressing the default controller instead of its own.
setLERequestDefault(index, newState) ==
    setStateRequest("ESetLowEnergyCommand", 0, IF newState THEN 1 ELSE 0)

setLERequest(index, newState) ==
    setStateRequest("ESetLowEnergyCommand", index, IF newState THEN 1 ELSE 0)

setAdvertisingRequest(index, newState) ==
    setStateRequest("ESetAdvertisingCommand", index, newState)

\* ----------------------------------------------------------- addAdvertising

\* The statics declared without `static`: initialised by every call.
StaticInitEveryCall(guard, ks, ku, shortName, uuid) ==
    IF uuid # Null
    THEN {[trap |-> FALSE, nullRead |-> FALSE, kShortName |-> shortName,
           kUuid |-> uuid]}
    ELSE {[trap |-> TRUE, nullRead |-> TRUE, kShortName |-> shortName,
           kUuid |-> Null]}
         \cup {[trap |-> FALSE, nullRead |-> TRUE, kShortName |-> shortName,
                kUuid |-> w] : w \in WildUuids}

\* The cache refreshed by every call that passes a pointer.
StaticInitLatest(guard, ks, ku, shortName, uuid) ==
    IF uuid # Null
    THEN {[trap |-> FALSE, nullRead |-> FALSE, kShortName |-> shortName,
           kUuid |-> uuid]}
    ELSE IF guard
    THEN {[trap |-> FALSE, nullRead |-> FALSE, kShortName |-> ks, kUuid |-> ku]}
    ELSE {[trap |-> TRUE, nullRead |-> TRUE, kShortName |-> shortName,
           kUuid |-> Null]}
         \cup {[trap |-> FALSE, nullRead |-> TRUE, kShortName |-> shortName,
                kUuid |-> w] : w \in WildUuids}

\* static std::string kShortName = shortName; static const uint16_t kUuid = *uuid;
\* The statics are initialised by the first call to reach them and never again.
\* *uuid through a null pointer is undefined: the read traps, or yields whatever
\* lies at that address.
StaticInit(guard, ks, ku, shortName, uuid) ==
    IF guard
    THEN {[trap |-> FALSE, nullRead |-> FALSE, kShortName |-> ks, kUuid |-> ku]}
    ELSE IF uuid # Null
    THEN {[trap |-> FALSE, nullRead |-> FALSE, kShortName |-> shortName,
           kUuid |-> uuid]}
    ELSE {[trap |-> TRUE, nullRead |-> TRUE, kShortName |-> shortName,
           kUuid |-> Null]}
         \cup {[trap |-> FALSE, nullRead |-> TRUE, kShortName |-> shortName,
                kUuid |-> w] : w \in WildUuids}

\* The cached short name used whether or not a pointer was passed.
FallbackAlways(shortName, uuid, ks, ku) ==
    IF uuid = Null
    THEN [shortName |-> ks, uuid |-> ku]
    ELSE [shortName |-> ks, uuid |-> uuid]

\* if (uuid == nullptr) { shortName = kShortName; uuid = &kUuid; }
Fallback(shortName, uuid, ks, ku) ==
    IF uuid = Null
    THEN [shortName |-> ks, uuid |-> ku]
    ELSE [shortName |-> shortName, uuid |-> uuid]

\* std::min(ADVERTISING_SHORTNAME_MAX_LEN, shortName.length())
shortNameEffectiveLen(shortName) == Min(ADVERTISING_SHORTNAME_MAX_LEN, Len(shortName))

\* instance, flags, duration, timeout, advDataLen, scanRspLen, data[14], packed.
AdvStructSize == HciHeaderSize + 1 + 4 + 2 + 2 + 1 + 1 + ADVERTISING_MAX_DATALEN

\* dataSize left at the full struct size, whatever the short name's length.
AdvDataSizeFull(effLen) == (AdvStructSize - HciHeaderSize) % 65536

AdvDataSize(effLen) ==
    (AdvStructSize - HciHeaderSize - (ADVERTISING_SHORTNAME_MAX_LEN - effLen)) % 65536

\* advDataLen left at the maximum, whatever the short name's length.
AdvDataLenMax(effLen) == ADVERTISING_MAX_DATALEN % 256

AdvDataLen(effLen) ==
    (ADVERTISING_MAX_DATALEN - (ADVERTISING_SHORTNAME_MAX_LEN - effLen)) % 256

\* request.data, as lines 224 to 231 fill it.
AdvData(shortName, uuid, junk) ==
    LET effLen == shortNameEffectiveLen(shortName)
        d0 == Uninit(ADVERTISING_MAX_DATALEN, junk)
        d1 == [d0 EXCEPT ![1] = (ADVERTISING_UUID_LEN + 1) % 256, ![2] = 3]
        d2 == memcpy(d1, 2, uuid, ADVERTISING_UUID_LEN)
        d3 == [d2 EXCEPT ![2 + ADVERTISING_UUID_LEN + 1] = (1 + effLen) % 256,
                         ![3 + ADVERTISING_UUID_LEN + 1] = 8]
        d4 == memset(d3, 4 + ADVERTISING_UUID_LEN, 0, ADVERTISING_SHORTNAME_MAX_LEN)
    IN memcpy(d4, 4 + ADVERTISING_UUID_LEN, shortName, effLen)

addAdvertisingRequest(index, shortName, uuid, junk) ==
    [code |-> "EAddAdvertisingCommand",
     controllerId |-> index,
     dataSize |-> AdvDataSize(shortNameEffectiveLen(shortName)),
     body |-> [instance |-> 1, flags |-> 3, duration |-> 0, timeout |-> 0,
               advDataLen |-> AdvDataLen(shortNameEffectiveLen(shortName)),
               scanRspLen |-> 0,
               data |-> AdvData(shortName, uuid, junk)]]

\* ----------------------------------------------------------------- actions

Init ==
    /\ running = TRUE
    /\ live = {}
    /\ controllerIndex = [m \in Objects |-> 0]
    /\ ctorArg = [m \in Objects |-> 0]
    /\ synced = {}
    /\ kInit = FALSE
    /\ kShortName = <<>>
    /\ kUuid = Null
    /\ firstAdv = NoAdv
    /\ recentAdv = NoAdv
    /\ last = NoCall
    /\ pin = NoPin

\* Mgmt::Mgmt(controllerIndex): keeps the index and syncs the adapter on it.
Mgmt(m, index) ==
    /\ Idle
    /\ m \notin live
    /\ live' = live \cup {m}
    /\ controllerIndex' = [controllerIndex EXCEPT ![m] = index]
    /\ ctorArg' = [ctorArg EXCEPT ![m] = index]
    /\ synced' = synced \cup {index}
    /\ UNCHANGED <<running, statics, history, last, pin>>

\* What every setter leaves alone.
others == <<running, live, controllerIndex, ctorArg, synced, kInit, kShortName,
            kUuid, firstAdv, recentAdv, pin>>

setName(m, name, shortName, ack) ==
    /\ Idle
    /\ m \in live
    /\ \E junk \in StackBytes :
        last' = Submitted("setName", ctorArg[m], <<name, shortName>>,
                    setNameRequest(controllerIndex[m], name, shortName, junk), ack)
    /\ UNCHANGED others

setDiscoverable(m, disc, timeout, ack) ==
    /\ Idle
    /\ m \in live
    /\ last' = Submitted("setDiscoverable", ctorArg[m], <<disc, timeout>>,
                   setDiscoverableRequest(controllerIndex[m], disc, timeout), ack)
    /\ UNCHANGED others

setState(m, commandCode, controllerId, newState, ack) ==
    /\ Idle
    /\ m \in live
    /\ last' = Submitted("setState", ctorArg[m],
                   <<commandCode, controllerId, newState>>,
                   setStateRequest(commandCode, controllerId, newState), ack)
    /\ UNCHANGED others

setPowered(m, newState, ack) ==
    /\ Idle
    /\ m \in live
    /\ last' = Submitted("setPowered", ctorArg[m], <<newState>>,
                   setPoweredRequest(controllerIndex[m], newState), ack)
    /\ UNCHANGED others

setBredr(m, newState, ack) ==
    /\ Idle
    /\ m \in live
    /\ last' = Submitted("setBredr", ctorArg[m], <<newState>>,
                   setBredrRequest(controllerIndex[m], newState), ack)
    /\ UNCHANGED others

setSecureConnections(m, newState, ack) ==
    /\ Idle
    /\ m \in live
    /\ last' = Submitted("setSecureConnections", ctorArg[m], <<newState>>,
                   setSecureConnectionsRequest(controllerIndex[m], newState), ack)
    /\ UNCHANGED others

setBondable(m, newState, ack) ==
    /\ Idle
    /\ m \in live
    /\ last' = Submitted("setBondable", ctorArg[m], <<newState>>,
                   setBondableRequest(controllerIndex[m], newState), ack)
    /\ UNCHANGED others

setConnectable(m, newState, ack) ==
    /\ Idle
    /\ m \in live
    /\ last' = Submitted("setConnectable", ctorArg[m], <<newState>>,
                   setConnectableRequest(controllerIndex[m], newState), ack)
    /\ UNCHANGED others

setLE(m, newState, ack) ==
    /\ Idle
    /\ m \in live
    /\ last' = Submitted("setLE", ctorArg[m], <<newState>>,
                   setLERequest(controllerIndex[m], newState), ack)
    /\ UNCHANGED others

setAdvertising(m, newState, ack) ==
    /\ Idle
    /\ m \in live
    /\ last' = Submitted("setAdvertising", ctorArg[m], <<newState>>,
                   setAdvertisingRequest(controllerIndex[m], newState), ack)
    /\ UNCHANGED others

addAdvertising(m, shortName, uuid, ack) ==
    /\ Idle
    /\ m \in live
    /\ \E st \in StaticInit(kInit, kShortName, kUuid, shortName, uuid),
          junk \in StackBytes :
        LET use == Fallback(shortName, uuid, st.kShortName, st.kUuid)
            sent == Submitted("addAdvertising", ctorArg[m], <<shortName, uuid>>,
                        addAdvertisingRequest(controllerIndex[m], use.shortName,
                                              use.uuid, junk),
                        ack)
        IN IF st.trap
           THEN /\ running' = FALSE
                /\ last' = [NoCall EXCEPT !.op = "addAdvertising",
                                          !.ctor = ctorArg[m],
                                          !.args = <<shortName, uuid>>,
                                          !.nullRead = TRUE,
                                          !.first = ~firstAdv.set]
                /\ UNCHANGED statics
           ELSE /\ running' = running
                /\ kInit' = TRUE
                /\ kShortName' = st.kShortName
                /\ kUuid' = st.kUuid
                /\ last' = [sent EXCEPT !.nullRead = st.nullRead,
                                        !.first = ~firstAdv.set]
    /\ firstAdv' = IF firstAdv.set THEN firstAdv
                   ELSE [set |-> TRUE, name |-> shortName, uuid |-> uuid]
    /\ recentAdv' = IF uuid = Null THEN recentAdv
                    ELSE [set |-> TRUE, name |-> shortName, uuid |-> uuid]
    /\ UNCHANGED <<live, controllerIndex, ctorArg, synced, pin>>

\* The static helpers: they touch nothing and return the truncated copy.
callTruncateName(name) ==
    /\ Idle
    /\ last' = [NoCall EXCEPT !.op = "truncateName", !.args = <<name>>,
                              !.returned = TRUE, !.out = truncateName(name)]
    /\ UNCHANGED others

callTruncateShortName(name) ==
    /\ Idle
    /\ last' = [NoCall EXCEPT !.op = "truncateShortName", !.args = <<name>>,
                              !.returned = TRUE, !.out = truncateShortName(name)]
    /\ UNCHANGED others

\* The call has returned: its request, a local of the setter, is gone, and the
\* caller goes on to its next call.
Return ==
    /\ running
    /\ last.op # "none"
    /\ last' = NoCall
    /\ UNCHANGED others

\* Any one call, its arguments drawn from the given sets.
Call(names, shortNames, advNames, uuids, states, modes, timeouts, codes) ==
    \/ \E m \in Objects, index \in Indices : Mgmt(m, index)
    \/ \E m \in Objects, name \in names, shortName \in shortNames, ack \in BOOLEAN :
        setName(m, name, shortName, ack)
    \/ \E m \in Objects, disc \in modes, timeout \in timeouts, ack \in BOOLEAN :
        setDiscoverable(m, disc, timeout, ack)
    \/ \E m \in Objects, code \in codes, id \in Indices, st \in states,
          ack \in BOOLEAN :
        setState(m, code, id, st, ack)
    \/ \E m \in Objects, b \in BOOLEAN, ack \in BOOLEAN : setPowered(m, b, ack)
    \/ \E m \in Objects, b \in BOOLEAN, ack \in BOOLEAN : setBredr(m, b, ack)
    \/ \E m \in Objects, st \in states, ack \in BOOLEAN :
        setSecureConnections(m, st, ack)
    \/ \E m \in Objects, b \in BOOLEAN, ack \in BOOLEAN : setBondable(m, b, ack)
    \/ \E m \in Objects, b \in BOOLEAN, ack \in BOOLEAN : setConnectable(m, b, ack)
    \/ \E m \in Objects, b \in BOOLEAN, ack \in BOOLEAN : setLE(m, b, ack)
    \/ \E m \in Objects, st \in states, ack \in BOOLEAN : setAdvertising(m, st, ack)
    \/ \E m \in Objects, shortName \in advNames, uuid \in uuids, ack \in BOOLEAN :
        addAdvertising(m, shortName, uuid, ack)
    \/ \E name \in names : callTruncateName(name)
    \/ \E name \in shortNames : callTruncateShortName(name)
    \/ Return

Next == Call(Names, ShortNames, AdvNames, UuidPtrs, States, Modes, Timeouts, DirectCodes)

Spec == Init /\ [][Next]_vars

\* ------------------------------------------------- one run after another

\* What identifies a call: the operation, the controller index of the object it
\* is made on, and its arguments.
Key(call) == <<call.op, call.ctor, call.args>>

\* The observer keeps one request that was sent, to hold later ones against.
Pin ==
    /\ running
    /\ last.sends = 1
    /\ pin.op = "none"
    /\ pin' = [op |-> last.op, ctor |-> last.ctor, args |-> last.args,
               req |-> last.req, defined |-> firstAdv.uuid # Null \/ ~firstAdv.set]
    /\ UNCHANGED <<running, live, controllerIndex, ctorArg, synced, statics,
                   history, last>>

\* The process ends (or has trapped) and the program is started again: no object
\* is constructed yet, and the function-local statics are uninitialised again.
Restart ==
    /\ last.op = "none" \/ ~running
    /\ running' = TRUE
    /\ live' = {}
    /\ controllerIndex' = [m \in Objects |-> 0]
    /\ ctorArg' = [m \in Objects |-> 0]
    /\ synced' = {}
    /\ kInit' = FALSE
    /\ kShortName' = <<>>
    /\ kUuid' = Null
    /\ firstAdv' = NoAdv
    /\ recentAdv' = NoAdv
    /\ last' = NoCall
    /\ UNCHANGED pin

RunNames == {Str(3, 0)}
RunShortNames == {Str(3, 0)}
RunAdvNames == {Str(3, 0), Str(ADVERTISING_SHORTNAME_MAX_LEN + MaxOver, 0)}
RunUuids == {<<24, 254>>, Null}
RunStates == {MaxState}
RunModes == {1}
RunTimeouts == {0}
RunCodes == {"ESetPoweredCommand"}

NextRuns ==
    \/ Call(RunNames, RunShortNames, RunAdvNames, RunUuids, RunStates, RunModes,
            RunTimeouts, RunCodes)
    \/ Pin
    \/ Restart

SpecRuns == Init /\ [][NextRuns]_vars

\* ------------------------------------------------------------------ claims

\* s cut to n bytes, or filled with zero bytes up to n.
ZeroPadded(s, n) == [i \in 1..n |-> IF i <= Len(s) THEN s[i] ELSE 0]

SetterOps ==
    {"setName", "setDiscoverable", "setState", "setPowered", "setBredr",
     "setSecureConnections", "setBondable", "setConnectable", "setLE",
     "setAdvertising", "addAdvertising"}
BoolWrappers == {"setPowered", "setBredr", "setBondable", "setConnectable", "setLE"}
ByteWrappers == {"setSecureConnections", "setAdvertising"}
StateOps == BoolWrappers \cup ByteWrappers \cup {"setState"}

\* No call of this run has read through a null pointer: its behaviour is defined.
Defined == firstAdv.set => firstAdv.uuid # Null

AdvSent == last.op = "addAdvertising" /\ last.sends = 1
NullCall == last.op = "addAdvertising" /\ last.args[2] = Null

\* The advertising data block of a sent request: data[0 .. advDataLen - 1].
Block == SubSeq(last.req.body.data, 1, last.req.body.advDataLen)

\* The block [3][0x03][uuid][1+e][0x08][first e bytes of name], e = min(8, n).
BlockOf(name, uuid) ==
    LET e == Min(8, Len(name))
    IN <<3, 3>> \o uuid \o <<1 + e, 8>> \o SubSeq(name, 1, e)

\* C1, as claimed: a call with a null pointer submits the short name and the UUID
\* of the most recent earlier call that passed a pointer (stated of the runs whose
\* behaviour is defined, those whose first call passed a pointer).
C1_SendsMostRecent ==
    (AdvSent /\ NullCall /\ recentAdv.set /\ Defined)
        => Block = BlockOf(recentAdv.name, recentAdv.uuid)

\* C1, as amended: a call with a null pointer submits the short name of the first
\* addAdvertising call of the process and, when that first call passed a pointer,
\* its UUID: the statics are initialised once, by the first call.
C1_SendsFirstCall ==
    (AdvSent /\ NullCall)
        => /\ Len(Block) = 6 + Min(8, Len(firstAdv.name))
           /\ SubSeq(Block, 5, Len(Block))
                = SubSeq(BlockOf(firstAdv.name, <<0, 0>>), 5, 6 + Min(8, Len(firstAdv.name)))
           /\ firstAdv.uuid # Null => Block = BlockOf(firstAdv.name, firstAdv.uuid)

\* A null-pointer call sent after two calls with pointers that differ in both
\* short name and UUID.
C1_Witness ==
    /\ AdvSent /\ NullCall
    /\ firstAdv.uuid # Null /\ recentAdv.set
    /\ firstAdv.name # recentAdv.name /\ firstAdv.uuid # recentAdv.uuid

\* C2, as claimed: every setter calls sendCommand exactly once, returns true
\* exactly when that call did, and a failed call changes no state of the encoder.
C2_OneSendNoSideEffect ==
    [][(last'.op \in SetterOps)
        => /\ last'.sends = 1
           /\ last'.returned
           /\ last'.ret = last'.ack
           /\ ~last'.ret =>
                UNCHANGED <<live, controllerIndex, kInit, kShortName, kUuid>>]_vars

\* C3: the declared payload length of every request sent is the number of its
\* meaningful payload bytes: 260 for setName, 3 for setDiscoverable, 1 for setState
\* and its wrappers, 11 + advDataLen for addAdvertising.
C3_DataSize ==
    (last.op \in SetterOps /\ last.sends = 1)
        => /\ last.op = "setName" =>
                /\ last.req.dataSize = 260
                /\ Len(last.req.body.name) + Len(last.req.body.shortName) = 260
           /\ last.op = "setDiscoverable" => last.req.dataSize = 3
           /\ last.op \in StateOps => last.req.dataSize = 1
           /\ last.op = "addAdvertising" =>
                /\ last.req.dataSize = 11 + last.req.body.advDataLen
                /\ last.req.body.advDataLen <= Len(last.req.body.data)

\* An addAdvertising request with a 3-byte short name: 20 payload bytes.
C3_Witness ==
    /\ AdvSent /\ last.args[2] # Null /\ Len(last.args[1]) = 3
    /\ last.req.dataSize = 20

\* The fixed fields of an addAdvertising request and the tiling of its block by
\* the two length-prefixed elements.
AdvFixedFields ==
    /\ last.req.body.instance = 1
    /\ last.req.body.flags = 3
    /\ last.req.body.scanRspLen = 0
    /\ (last.req.body.data[1] + 1) + (last.req.body.data[5] + 1)
            = last.req.body.advDataLen

\* C4, as claimed: with n the length of the short name passed and e = min(8, n),
\* the block is [3][0x03][uuid][1+e][0x08][first e bytes of the short name passed],
\* advDataLen = 6 + e, the two elements tile the block, scanRspLen = 0, flags = 3,
\* instance = 1 (stated of the runs whose behaviour is defined).
C4_BlockOfPassedName ==
    (AdvSent /\ Defined)
        => /\ last.req.body.advDataLen = 6 + Min(8, Len(last.args[1]))
           /\ Block = BlockOf(last.args[1], SubSeq(last.req.body.data, 3, 4))
           /\ last.args[2] # Null => SubSeq(last.req.body.data, 3, 4) = last.args[2]
           /\ AdvFixedFields

\* C4, as amended: the same, of the short name the request is built from, which is
\* the one passed when the call passes a pointer and the cached kShortName when it
\* passes null.
C4_BlockOfUsedName ==
    AdvSent
        => LET used == IF last.args[2] = Null THEN kShortName ELSE last.args[1]
           IN /\ last.req.body.advDataLen = 6 + Min(8, Len(used))
              /\ Block = BlockOf(used, SubSeq(last.req.body.data, 3, 4))
              /\ last.args[2] # Null =>
                    SubSeq(last.req.body.data, 3, 4) = last.args[2]
              /\ AdvFixedFields

\* A request built from a 3-byte short name passed with a pointer: a 9-byte block.
C4_Witness ==
    /\ AdvSent /\ last.args[2] # Null
    /\ Len(last.args[1]) = 3
    /\ last.req.body.advDataLen = 9

\* C6: truncateName and truncateShortName return the prefix of length
\* min(len, max) of their input, max = 248 and 10: the max-length prefix of a
\* longer input, the input itself otherwise, and truncating again changes nothing.
C6_Truncate ==
    /\ last.op = "truncateName" =>
        LET s == last.args[1]
        IN /\ last.out = [i \in 1..Min(Len(s), 248) |-> s[i]]
           /\ Len(s) > 248 => Len(last.out) = 248
           /\ Len(s) <= 248 => last.out = s
           /\ truncateName(last.out) = last.out
    /\ last.op = "truncateShortName" =>
        LET s == last.args[1]
        IN /\ last.out = [i \in 1..Min(Len(s), 10) |-> s[i]]
           /\ Len(s) > 10 => Len(last.out) = 10
           /\ Len(s) <= 10 => last.out = s
           /\ truncateShortName(last.out) = last.out

\* truncateShortName has cut a short name longer than 10 bytes.
C6_Witness ==
    /\ last.op = "truncateShortName"
    /\ Len(last.args[1]) > 10
    /\ Len(last.out) = 10

\* C7, as claimed: setName's name field holds the first min(len, 248) bytes of
\* name and then only zero bytes, its short-name field the first min(len, 10)
\* bytes of shortName and then only zero bytes.
C7_FieldsHoldPrefix ==
    (last.op = "setName" /\ last.sends = 1)
        => /\ last.req.body.name
                = ZeroPadded(SubSeq(last.args[1], 1, Min(Len(last.args[1]), 248)), 249)
           /\ last.req.body.shortName
                = ZeroPadded(SubSeq(last.args[2], 1, Min(Len(last.args[2]), 10)), 11)

\* The bytes of s before its first zero byte, at most n of them.
UpToNul(s, n) ==
    LET upto == Min(Len(s), n)
        nuls == {i \in 1..upto : s[i] = 0}
    IN IF nuls = {} THEN SubSeq(s, 1, upto)
       ELSE SubSeq(s, 1, (CHOOSE i \in nuls : \A j \in nuls : i <= j) - 1)

\* C7, as amended: each field holds the bytes that precede the first zero byte
\* among the first min(len, 248) bytes of name (min(len, 10) of shortName) and
\* then only zero bytes; so each field ends in a zero byte and holds no byte of
\* what the stack held before.
C7_FieldsHoldCString ==
    (last.op = "setName" /\ last.sends = 1)
        => /\ last.req.body.name = ZeroPadded(UpToNul(last.args[1], 248), 249)
           /\ last.req.body.shortName = ZeroPadded(UpToNul(last.args[2], 10), 11)
           /\ last.req.body.name[249] = 0
           /\ last.req.body.shortName[11] = 0

\* setName sent with a name longer than 248 bytes and a short name longer than 10.
C7_Witness ==
    /\ last.op = "setName" /\ last.sends = 1
    /\ Len(last.args[1]) > 248 /\ Len(last.args[2]) > 10
    /\ last.req.body.name[248] # 0 /\ last.req.body.shortName[10] # 0

\* C8: an addAdvertising call reads through a null pointer exactly when it is the
\* first addAdvertising call of the process and passes null.
C8_NullReadOnlyFirst ==
    last.op = "addAdvertising"
        => (last.nullRead <=> (last.first /\ last.args[2] = Null))

\* A call that passes null after the first call: it is sent, and reads no null.
C8_Witness ==
    /\ AdvSent /\ NullCall
    /\ ~last.first /\ ~last.nullRead

\* C9: the controller index of an object stays the one given to its constructor,
\* and every request of setName, setDiscoverable, addAdvertising and the seven
\* wrappers carries it.
C9_ControllerIndex ==
    /\ \A m \in live : controllerIndex[m] = ctorArg[m]
    /\ (last.op \in SetterOps \ {"setState"} /\ last.sends = 1)
            => last.req.controllerId = last.ctor

\* setLE sent on an object constructed with index 1, another object having index 0.
C9_Witness ==
    /\ last.op = "setLE" /\ last.sends = 1 /\ last.ctor = 1
    /\ last.req.controllerId = 1
    /\ \E m \in live : ctorArg[m] = 0

WrapperCode ==
    [setPowered |-> "ESetPoweredCommand",
     setBredr |-> "ESetBREDRCommand",
     setSecureConnections |-> "ESetSecureConnectionsCommand",
     setBondable |-> "ESetBondableCommand",
     setConnectable |-> "ESetConnectableCommand",
     setLE |-> "ESetLowEnergyCommand",
     setAdvertising |-> "ESetAdvertisingCommand"]

\* C10: each wrapper submits one setState request with its own opcode and a
\* 1-byte payload, true as 1 and false as 0 for the boolean wrappers and the
\* caller's byte for setSecureConnections and setAdvertising, and returns what
\* setState returned.
C10_Wrappers ==
    (last.op \in BoolWrappers \cup ByteWrappers)
        => /\ last.sends = 1
           /\ last.req.code = WrapperCode[last.op]
           /\ last.req.dataSize = 1
           /\ last.op \in BoolWrappers =>
                last.req.body.state = (IF last.args[1] THEN 1 ELSE 0)
           /\ last.op \in ByteWrappers => last.req.body.state = last.args[1]
           /\ last.returned /\ last.ret = last.ack

\* setBredr(false) sent and refused by the transport.
C10_Witness ==
    /\ last.op = "setBredr" /\ last.sends = 1
    /\ last.args[1] = FALSE /\ last.req.body.state = 0
    /\ last.req.code = "ESetBREDRCommand"
    /\ ~last.ret

SameCall == pin.op # "none" /\ last.sends = 1 /\ Key(pin) = Key(last)

\* C5, as claimed: two calls of the same operation with equal arguments on
\* encoders with equal controller index submit identical requests, whatever calls
\* came before either (stated of the runs whose behaviour is defined).
C5_SameCallSameRequest ==
    (SameCall /\ Defined /\ pin.defined) => last.req = pin.req

\* C5, as amended: the same of every call but an addAdvertising call that passes
\* a null pointer, whose request is built from the statics kShortName and kUuid
\* that the first addAdvertising call of the process set.
C5_SameCallSameRequestButNull == (SameCall /\ ~NullCall) => last.req = pin.req

\* The same addAdvertising call with a pointer, sent in two runs whose first
\* addAdvertising calls differ.
C5_Witness ==
    /\ SameCall /\ AdvSent /\ ~NullCall
    /\ firstAdv.set /\ firstAdv.name # last.args[1]
    /\ last.req = pin.req

====
